---------------------------- MODULE Spec2Model ----------------------------
(***************************************************************************)
(* Model of the email intelligence pipeline: the rule scorer and the       *)
(* unified classifier (classifier/smart_email_classifier.py), the LLM      *)
(* adapter (llm_gateway/azure_openai_llm.py), the SQLite store             *)
(* (databases/email_db.py), the WhatsApp notifier                          *)
(* (notifiers/whatsapp_notifiers.py) and the orchestrator (main.py).       *)
(*                                                                         *)
(* Texts are sequences of one-character strings, so that lowercasing,      *)
(* stripping, substring tests and the regular expression \bkeyword\b are   *)
(* computed character by character as Python computes them.                *)
(***************************************************************************)
EXTENDS Integers, Sequences, FiniteSets, TLC

VARIABLES
    \* configuration, fixed for the life of the process
    rules,                \* configurations/priority_rules.json as loaded
    mode,                 \* CLASSIFICATION_MODE
    creds,                \* the Twilio settings that are set
    bitly,                \* BITLY_ACCESS_TOKEN is set
    \* a call of is_high_priority / classify_email_python
    s_text, s_pc, s_score, s_high, s_label, s_term, s_text2, s_score2,
    \* a call of classify_emails_bulk
    c_emails,             \* the argument, as passed
    c_outcomes,           \* what the LLM backend did for each message so far
    c_classified,         \* the list classified
    c_i,                  \* index of the next message of the for loop
    c_pc,                 \* "off", "loop", "done" (returned) or "raised"
    c_pyCalls,            \* indices for which classify_email_python was called
    \* notifiers/whatsapp_notifiers.py
    now,                  \* datetime.now(), in minutes
    notification_cache,   \* sender -> time of the last accepted notification
    wa_calls,             \* the calls of send_whatsapp_message so far
    notices,              \* messages sent by send_sandbox_expiry_notification
    \* databases/email_db.py
    store,                \* the committed rows of table emails
    pending,              \* rows inserted on the open connection, uncommitted
    d_emails,             \* the argument of insert_emails
    d_i,                  \* index of the next message of the for loop
    new_count, skipped_count,
    d_pc,                 \* "off", "loop", "done" (returned) or "raised"
    d_before,             \* the ids stored when insert_emails was called
    d_log,                \* what the loop printed for each message so far
    \* main.py: run_pipeline
    p_pc,                 \* "idle", "classify", "store", "notify", "done", "failed"
    p_classified,         \* classified_emails
    p_high,               \* high_priority
    p_k,                  \* index of the next message of the alert loop
    alerts_sent,
    p_result,             \* what run_pipeline returned or raised
    p_alerted,            \* ids alerted with success by earlier runs of the process
    \* one call of send_whatsapp_message with its snippet
    snippet,              \* the argument snippet
    truncated,            \* <<the value of truncated>>, or <<>> before line 92
    \* two threads inside send_whatsapp_message for one sender
    t_pc,                 \* thread -> "off", "start", "compare", "write", "send", "done"
    t_now,                \* thread -> the local now of can_send_notification
    t_last,               \* thread -> <<last_sent>>, or <<>> for None
    \* two concurrent calls of insert_emails, each on its own connection
    x_emails,             \* run -> the argument of insert_emails
    x_i,                  \* run -> index of the next message of the for loop
    x_pending,            \* run -> rows inserted on its connection, uncommitted
    x_pc,                 \* run -> "off", "loop", "done" (returned) or "raised"
    x_log,                \* run -> what the loop printed for each message so far
    x_lock                \* the run whose connection holds the write lock, or 0

cfgVars == <<rules, mode, creds, bitly>>
scoreVars == <<s_text, s_pc, s_score, s_high, s_label, s_term, s_text2, s_score2>>
classVars == <<c_emails, c_outcomes, c_classified, c_i, c_pc, c_pyCalls>>
notifyVars == <<now, notification_cache, wa_calls, notices>>
dbVars == <<store, pending, d_emails, d_i, new_count, skipped_count, d_pc, d_before,
           d_log>>
pipeVars == <<p_pc, p_classified, p_high, p_k, alerts_sent, p_result, p_alerted>>
previewVars == <<snippet, truncated>>
raceVars == <<t_pc, t_now, t_last>>
concVars == <<x_emails, x_i, x_pending, x_pc, x_log, x_lock>>
auxVars == <<previewVars, raceVars, concVars>>
vars == <<cfgVars, scoreVars, classVars, notifyVars, dbVars, pipeVars, auxVars>>

None == "None"

-----------------------------------------------------------------------------
(* Bounds of the model *)

\* longest enumerated text, in characters
MaxTextLen == 4
\* longest batch handed to classify_emails_bulk
MaxBatch == 2
\* the clock stops advancing at this minute
MaxTime == 20
\* calls of send_whatsapp_message made directly
MaxCalls == 3

-----------------------------------------------------------------------------
(* Characters and strings *)

UpperCase == <<"A","B","C","D","E","F","G","H","I","J","K","L","M",
               "N","O","P","Q","R","S","T","U","V","W","X","Y","Z">>
LowerCase == <<"a","b","c","d","e","f","g","h","i","j","k","l","m",
               "n","o","p","q","r","s","t","u","v","w","x","y","z">>
Digits == {"0","1","2","3","4","5","6","7","8","9"}

\* the characters \w matches
WordChars == {UpperCase[i] : i \in 1..26} \cup {LowerCase[i] : i \in 1..26}
             \cup Digits \cup {"_"}

\* the characters str.strip() removes
WhiteSpace == {" ", "\t", "\n", "\r"}

LowerChar(c) ==
    IF \E i \in 1..26 : UpperCase[i] = c
    THEN LowerCase[CHOOSE i \in 1..26 : UpperCase[i] = c]
    ELSE c

\* str.lower()
str_lower(s) == [i \in 1..Len(s) |-> LowerChar(s[i])]

\* needle in haystack
str_contains(needle, s) ==
    \E i \in 1..(Len(s) - Len(needle) + 1) :
        SubSeq(s, i, i + Len(needle) - 1) = needle

\* str.strip()
str_strip(s) ==
    LET keep == {i \in 1..Len(s) : s[i] \notin WhiteSpace}
    IN  IF keep = {} THEN <<>>
        ELSE LET lo == CHOOSE i \in keep : \A j \in keep : i <= j
                 hi == CHOOSE i \in keep : \A j \in keep : j <= i
             IN  SubSeq(s, lo, hi)

\* \b at the position before character p of s (p in 1..Len(s)+1)
IsWordAt(s, p) == p >= 1 /\ p <= Len(s) /\ s[p] \in WordChars
WordBoundary(s, p) == IsWordAt(s, p - 1) # IsWordAt(s, p)

-----------------------------------------------------------------------------
(* classifier/smart_email_classifier.py: the rule scorer *)

RECURSIVE Flatten(_)
\* HIGH_PRIORITY_KEYWORDS: the categories' lists, extended one after the other
Flatten(categories) ==
    IF categories = <<>> THEN <<>>
    ELSE Head(categories) \o Flatten(Tail(categories))

HIGH_PRIORITY_KEYWORDS(R) == Flatten(R.high_priority)
LOW_PRIORITY_TERMS(R) == R.low_priority
\* rules.get("threshold", 2)
\* (the "threshold" key of the JSON object: <<>> when absent, <<n>> when set)
THRESHOLD(R) == IF R.threshold = <<>> THEN 2 ELSE R.threshold[1]

\* re.search(rf"\b{re.escape(keyword)}\b", text)
re_search_word(keyword, text) ==
    \E i \in 1..(Len(text) - Len(keyword) + 1) :
        /\ WordBoundary(text, i)
        /\ SubSeq(text, i, i + Len(keyword) - 1) = keyword
        /\ WordBoundary(text, i + Len(keyword))

RECURSIVE ScoreLoopSubstring(_, _, _, _)
\* ScoreLoop with the keyword searched as a substring, without the two \b
ScoreLoopSubstring(keywords, text_lower, weight, score) ==
    IF keywords = <<>> THEN score
    ELSE ScoreLoopSubstring(Tail(keywords), text_lower, weight,
                   IF str_contains(str_lower(Head(keywords)), text_lower)
                   THEN score + weight ELSE score)

RECURSIVE ScoreLoop(_, _, _, _)
\* one "for keyword in ...: if re.search(...): score += weight" loop
ScoreLoop(keywords, text_lower, weight, score) ==
    IF keywords = <<>> THEN score
    ELSE ScoreLoop(Tail(keywords), text_lower, weight,
                   IF re_search_word(str_lower(Head(keywords)), text_lower)
                   THEN score + weight ELSE score)

\* rule_score without text.lower()
rule_score_nolower(text, R) ==
    LET afterHigh == ScoreLoop(HIGH_PRIORITY_KEYWORDS(R), text, 2, 0)
    IN  ScoreLoop(LOW_PRIORITY_TERMS(R), text, -3, afterHigh)

\* rule_score with the low-priority loop adding 3
rule_score_lowadds(text, R) ==
    LET text_lower == str_lower(text)
        afterHigh == ScoreLoop(HIGH_PRIORITY_KEYWORDS(R), text_lower, 2, 0)
    IN  ScoreLoop(LOW_PRIORITY_TERMS(R), text_lower, 3, afterHigh)

\* the value of the local variable score when is_high_priority returns
rule_score(text, R) ==
    LET text_lower == str_lower(text)
        afterHigh == ScoreLoop(HIGH_PRIORITY_KEYWORDS(R), text_lower, 2, 0)
    IN  ScoreLoop(LOW_PRIORITY_TERMS(R), text_lower, -3, afterHigh)

is_high_priority(text, R) == rule_score(text, R) >= THRESHOLD(R)

classify_email_python(email, R) ==
    LET combined == email.subject \o <<" ">> \o email.body
    IN  IF is_high_priority(combined, R) THEN "High Priority" ELSE "Low Priority"

-----------------------------------------------------------------------------
(* llm_gateway/azure_openai_llm.py and the LLM branch of the classifier *)

\* what the backend does on one call
\*   "text"          llm.invoke returns a response whose content is a str
\*   "not_text"      llm.invoke returns a response whose content is not a str
\*   "invoke_raises" llm.invoke raises
\*   "ctor_raises"   ChatOpenAI(...) raises
\*   "no_call"       the adapter was not called (rule mode)
OutcomeKinds == {"text", "not_text", "invoke_raises", "ctor_raises", "no_call"}

\* the string classify_with_llm returns from its except branch
LLM_ERROR_REPLY ==
    <<"{","\"","p","r","i","o","r","i","t","y","\"",":"," ","\"","L","o","w"," ",
      "P","r","i","o","r","i","t","y","\"",","," ","\"","r","e","a","s","o","n",
      "\"",":"," ","\"","L","L","M"," ","e","r","r","o","r"," ","-"," ","f","a",
      "l","l","b","a","c","k"," ","a","p","p","l","i","e","d",".","\"","}">>

\* classify_with_llm(prompt): the constructor is outside the try, the call
\* of llm.invoke inside it
classify_with_llm(outcome) ==
    CASE outcome.kind = "ctor_raises"   -> [raised |-> TRUE, isStr |-> FALSE, value |-> <<>>]
      [] outcome.kind = "invoke_raises" -> [raised |-> FALSE, isStr |-> TRUE,
                                            value |-> LLM_ERROR_REPLY]
      [] outcome.kind = "not_text"      -> [raised |-> FALSE, isStr |-> FALSE, value |-> <<>>]
      [] OTHER                          -> [raised |-> FALSE, isStr |-> TRUE,
                                            value |-> outcome.content]

HIGH_WORD == <<"h","i","g","h">>
LOW_WORD == <<"l","o","w">>

\* classify_email_llm without the try/except around the adapter call
classify_email_llm_nocatch(email, outcome, R) ==
    LET reply == classify_with_llm(outcome)
        label == str_lower(str_strip(reply.value))
    IN  IF reply.raised \/ ~reply.isStr
        THEN [raised |-> TRUE, label |-> None, pyCalled |-> FALSE]
        ELSE IF str_contains(HIGH_WORD, label)
        THEN [raised |-> FALSE, label |-> "High Priority", pyCalled |-> FALSE]
        ELSE IF str_contains(LOW_WORD, label)
        THEN [raised |-> FALSE, label |-> "Low Priority", pyCalled |-> FALSE]
        ELSE [raised |-> FALSE, label |-> classify_email_python(email, R),
              pyCalled |-> TRUE]

\* classify_email_llm with "low" tested before "high"
classify_email_llm_lowfirst(email, outcome, R) ==
    LET reply == classify_with_llm(outcome)
        label == str_lower(str_strip(reply.value))
    IN  IF reply.raised \/ ~reply.isStr
        THEN [raised |-> FALSE, label |-> classify_email_python(email, R),
              pyCalled |-> TRUE]
        ELSE IF str_contains(LOW_WORD, label)
        THEN [raised |-> FALSE, label |-> "Low Priority", pyCalled |-> FALSE]
        ELSE IF str_contains(HIGH_WORD, label)
        THEN [raised |-> FALSE, label |-> "High Priority", pyCalled |-> FALSE]
        ELSE [raised |-> FALSE, label |-> classify_email_python(email, R),
              pyCalled |-> TRUE]

\* classify_email_llm(email): raised is whether an exception leaves the
\* function, pyCalled whether it called classify_email_python.  An
\* exception of the adapter, or of .strip() on a content that is no str, is
\* caught by the except branch.
classify_email_llm(email, outcome, R) ==
    LET reply == classify_with_llm(outcome)
        label == str_lower(str_strip(reply.value))
    IN  IF reply.raised \/ ~reply.isStr
        THEN [raised |-> FALSE, label |-> classify_email_python(email, R),
              pyCalled |-> TRUE]
        ELSE IF str_contains(HIGH_WORD, label)
        THEN [raised |-> FALSE, label |-> "High Priority", pyCalled |-> FALSE]
        ELSE IF str_contains(LOW_WORD, label)
        THEN [raised |-> FALSE, label |-> "Low Priority", pyCalled |-> FALSE]
        ELSE [raised |-> FALSE, label |-> classify_email_python(email, R),
              pyCalled |-> TRUE]

LLM_MODE == <<"l","l","m">>

\* the body of the for loop of classify_emails_bulk for one message
classify_one(m, email, outcome, R) ==
    IF str_lower(m) = LLM_MODE
    THEN classify_email_llm(email, outcome, R)
    ELSE [raised |-> FALSE, label |-> classify_email_python(email, R),
          pyCalled |-> TRUE]

\* e["priority"] = label
SetPriority(e, label) ==
    [k \in DOMAIN e \cup {"priority"} |-> IF k = "priority" THEN label ELSE e[k]]

\* the loop body with the message put at the front of classified
bulk_append_front(classified, e, label) == <<SetPriority(e, label)>> \o classified

\* e["priority"] = ...; classified.append(e)
bulk_append(classified, e, label) == Append(classified, SetPriority(e, label))

-----------------------------------------------------------------------------
(* notifiers/whatsapp_notifiers.py *)

\* NOTIFICATION_COOLDOWN = timedelta(minutes=15)
NOTIFICATION_COOLDOWN == 15

TwilioSettings == {"TWILIO_ACCOUNT_SID", "TWILIO_AUTH_TOKEN",
                   "TWILIO_WHATSAPP_FROM", "TWILIO_WHATSAPP_TO"}

\* can_send_notification that stamps the cache and never rejects
can_send_notification_nocheck(sender, cache, t) ==
    [ok |-> TRUE,
     cache |-> [k \in DOMAIN cache \cup {sender} |->
                    IF k = sender THEN t ELSE cache[k]]]

\* can_send_notification that stamps the cache when it rejects as well
can_send_notification_stamprejected(sender, cache, t) ==
    [ok |-> ~(sender \in DOMAIN cache /\ t - cache[sender] < NOTIFICATION_COOLDOWN),
     cache |-> [k \in DOMAIN cache \cup {sender} |->
                    IF k = sender THEN t ELSE cache[k]]]

\* can_send_notification(sender) at time t: the result and the cache after it
can_send_notification(sender, cache, t) ==
    IF sender \in DOMAIN cache /\ t - cache[sender] < NOTIFICATION_COOLDOWN
    THEN [ok |-> FALSE, cache |-> cache]
    ELSE [ok |-> TRUE,
          cache |-> [k \in DOMAIN cache \cup {sender} |->
                         IF k = sender THEN t ELSE cache[k]]]

\* shorten_gmail_link(subject): TRUE when it returns a link, FALSE when it
\* returns None (no token, or the request failed)
shorten_gmail_link(hasToken, bitlyOutcome) == hasToken /\ bitlyOutcome = "ok"

\* what happened in shorten_gmail_link: "no_token" (returned at line 45
\* without a request), "failed" (the request or raise_for_status raised, line
\* 64) or "ok"
shortener_status(hasToken, bitlyOutcome) ==
    IF ~hasToken THEN "no_token"
    ELSE IF bitlyOutcome = "ok" THEN "ok" ELSE "failed"

\* what the environment does during one call: the Bitly request and
\* client.messages.create ("ok", "error": any other failure, "expired":
\* the failure whose message carries code 63016, "no_client": Client(...)
\* raised, so that neither the shortener nor messages.create was called)
BitlyOutcomes == {"ok", "fail"}
TransportOutcomes == {"ok", "error", "expired", "no_client"}

\* send_whatsapp_message that returns without sending when it got no link
send_whatsapp_message_linkrequired(sender, cache, t, env) ==
    IF creds # TwilioSettings
    THEN [cache |-> cache, sent |-> FALSE, link |-> FALSE, outcome |-> "none",
          shortener |-> "not_called", stage |-> "no_credentials", raised |-> FALSE]
    ELSE LET c == can_send_notification(sender, cache, t)
         IN  IF ~c.ok
             THEN [cache |-> c.cache, sent |-> FALSE, link |-> FALSE,
                   outcome |-> "none", shortener |-> "not_called",
                   stage |-> "cooldown", raised |-> FALSE]
             ELSE IF env.transport = "no_client"
             THEN [cache |-> c.cache, sent |-> FALSE, link |-> FALSE,
                   outcome |-> "no_client", shortener |-> "not_called",
                   stage |-> "client", raised |-> FALSE]
             ELSE IF ~shorten_gmail_link(bitly, env.bitly)
             THEN [cache |-> c.cache, sent |-> FALSE, link |-> FALSE,
                   outcome |-> "none",
                   shortener |-> shortener_status(bitly, env.bitly),
                   stage |-> "create", raised |-> FALSE]
             ELSE [cache |-> c.cache, sent |-> TRUE, link |-> TRUE,
                   outcome |-> env.transport, shortener |-> "ok",
                   stage |-> "create", raised |-> FALSE]

\* send_whatsapp_message without the test of the four settings
send_whatsapp_message_nocredcheck(sender, cache, t, env) ==
    LET c == can_send_notification(sender, cache, t)
    IN  IF ~c.ok
        THEN [cache |-> c.cache, sent |-> FALSE, link |-> FALSE,
              outcome |-> "none", shortener |-> "not_called",
              stage |-> "cooldown", raised |-> FALSE]
        ELSE IF env.transport = "no_client"
        THEN [cache |-> c.cache, sent |-> FALSE, link |-> FALSE,
              outcome |-> "no_client", shortener |-> "not_called",
              stage |-> "client", raised |-> FALSE]
        ELSE [cache |-> c.cache, sent |-> TRUE,
              link |-> shorten_gmail_link(bitly, env.bitly),
              outcome |-> env.transport,
              shortener |-> shortener_status(bitly, env.bitly),
              stage |-> "create", raised |-> FALSE]

\* send_whatsapp_message that stamps the cache only after a successful send
send_whatsapp_message_stamplate(sender, cache, t, env) ==
    IF creds # TwilioSettings
    THEN [cache |-> cache, sent |-> FALSE, link |-> FALSE, outcome |-> "none",
          shortener |-> "not_called", stage |-> "no_credentials", raised |-> FALSE]
    ELSE LET c == can_send_notification(sender, cache, t)
         IN  IF ~c.ok
             THEN [cache |-> cache, sent |-> FALSE, link |-> FALSE,
                   outcome |-> "none", shortener |-> "not_called",
                   stage |-> "cooldown", raised |-> FALSE]
             ELSE IF env.transport = "no_client"
             THEN [cache |-> cache, sent |-> FALSE, link |-> FALSE,
                   outcome |-> "no_client", shortener |-> "not_called",
                   stage |-> "client", raised |-> FALSE]
             ELSE [cache |-> IF env.transport = "ok" THEN c.cache ELSE cache,
                   sent |-> TRUE,
                   link |-> shorten_gmail_link(bitly, env.bitly),
                   outcome |-> env.transport,
                   shortener |-> shortener_status(bitly, env.bitly),
                   stage |-> "create", raised |-> FALSE]

\* send_whatsapp_message(subject, sender, ...) at time t.  sent: whether
\* client.messages.create was called; link: whether the body carries a link;
\* raised: whether an exception leaves the function (the except branch
\* catches every Exception of the try block).
send_whatsapp_message(sender, cache, t, env) ==
    IF creds # TwilioSettings
    THEN [cache |-> cache, sent |-> FALSE, link |-> FALSE, outcome |-> "none",
          shortener |-> "not_called", stage |-> "no_credentials", raised |-> FALSE]
    ELSE LET c == can_send_notification(sender, cache, t)
         IN  IF ~c.ok
             THEN [cache |-> c.cache, sent |-> FALSE, link |-> FALSE,
                   outcome |-> "none", shortener |-> "not_called",
                   stage |-> "cooldown", raised |-> FALSE]
             ELSE IF env.transport = "no_client"
             THEN [cache |-> c.cache, sent |-> FALSE, link |-> FALSE,
                   outcome |-> "no_client", shortener |-> "not_called",
                   stage |-> "client", raised |-> FALSE]
             ELSE [cache |-> c.cache, sent |-> TRUE,
                   link |-> shorten_gmail_link(bitly, env.bitly),
                   outcome |-> env.transport,
                   shortener |-> shortener_status(bitly, env.bitly),
                   stage |-> "create", raised |-> FALSE]

\* MAX_BODY_LENGTH = 600
MAX_BODY_LENGTH == 600

\* "\n\n...(truncated preview)"
TRUNCATION_MARKER ==
    <<"\n","\n",".",".",".","(","t","r","u","n","c","a","t","e","d"," ",
      "p","r","e","v","i","e","w",")">>

\* s[:n]
str_prefix(s, n) == SubSeq(s, 1, IF Len(s) < n THEN Len(s) ELSE n)

\* the preview with the marker appended from MAX_BODY_LENGTH characters on
truncate_preview_ge(body) ==
    str_prefix(body, MAX_BODY_LENGTH)
    \o (IF Len(body) >= MAX_BODY_LENGTH THEN TRUNCATION_MARKER ELSE <<>>)

\* truncated = snippet[:MAX_BODY_LENGTH] + ("\n\n...(truncated preview)"
\*                 if len(snippet) > MAX_BODY_LENGTH else "")
truncate_preview(body) ==
    str_prefix(body, MAX_BODY_LENGTH)
    \o (IF Len(body) > MAX_BODY_LENGTH THEN TRUNCATION_MARKER ELSE <<>>)

\* the record kept of one call
CallRecord(sender, t, r) ==
    [sender |-> sender, at |-> t, sent |-> r.sent, link |-> r.link,
     outcome |-> r.outcome, shortener |-> r.shortener, stage |-> r.stage,
     raised |-> r.raised]

-----------------------------------------------------------------------------
(* databases/email_db.py *)

\* the ids of the rows of a table
Ids(table) == {table[k].id : k \in DOMAIN table}

\* email_exists(email_id): a SELECT on a connection of its own, which sees
\* the committed rows only
email_exists(email_id, committed) == email_id \in Ids(committed)

\* the row the INSERT statement of insert_emails binds (the timestamp column,
\* the time of insertion, is left out: nothing reads it)
InsertedRow(email) ==
    [id |-> email.id, sender |-> email.from, subject |-> email.subject,
     body |-> email.body, date |-> email.date,
     priority |-> IF "priority" \in DOMAIN email THEN email.priority
                  ELSE "Unclassified"]

\* an INSERT whose failure rolls back what the connection inserted before it
sql_insert_rollback(row, committed, uncommitted) ==
    IF row.id \in Ids(committed) \cup Ids(uncommitted)
    THEN [ok |-> FALSE, uncommitted |-> <<>>]
    ELSE [ok |-> TRUE, uncommitted |-> Append(uncommitted, row)]

\* an INSERT into a table whose id column has no PRIMARY KEY: every row is
\* accepted
sql_insert_nokey(row, committed, uncommitted) ==
    [ok |-> TRUE, uncommitted |-> Append(uncommitted, row)]

\* cursor.execute(INSERT ...) on the open connection: id is the PRIMARY KEY
\* of emails, so a row whose id the connection already sees (committed, or
\* inserted by this connection) raises IntegrityError
sql_insert(row, committed, uncommitted) ==
    IF row.id \in Ids(committed) \cup Ids(uncommitted)
    THEN [ok |-> FALSE, uncommitted |-> uncommitted]
    ELSE [ok |-> TRUE, uncommitted |-> Append(uncommitted, row)]

-----------------------------------------------------------------------------
(* Inputs *)

RECURSIVE TextsUpTo(_, _)
TextsUpTo(alphabet, n) ==
    IF n = 0 THEN {<<>>}
    ELSE LET shorter == TextsUpTo(alphabet, n - 1)
         IN  shorter \cup {Append(t, c) : t \in {u \in shorter : Len(u) = n - 1},
                                         c \in alphabet}

TextAlphabet == {"j", "o", "O", " ", "-"}

InterviewText == <<"I","n","t","e","r","v","i","e","w"," ","o","f","f","e","r",
                   " ","n","e","x","t"," ","w","e","e","k">>
NewsletterText == <<"W","e","e","k","l","y"," ","n","e","w","s","l","e","t","t",
                    "e","r"," ","d","i","g","e","s","t">>

Texts == TextsUpTo(TextAlphabet, MaxTextLen) \cup {InterviewText, NewsletterText}

\* {high: [interview, offer], low: [newsletter], threshold: 2}
ScenarioRules ==
    [high_priority |-> << << <<"i","n","t","e","r","v","i","e","w">>,
                             <<"o","f","f","e","r">> >> >>,
     low_priority  |-> << <<"n","e","w","s","l","e","t","t","e","r">> >>,
     threshold     |-> <<2>>]

\* a multi-word keyword ending in a low-priority term; no threshold key
MultiWordRules ==
    [high_priority |-> << << <<"j">> >>, << <<"j"," ","o">> >> >>,
     low_priority  |-> << <<"o">> >>,
     threshold     |-> <<>>]

\* a term listed under two categories and in the low-priority list
SharedTermRules ==
    [high_priority |-> << << <<"O">>, <<"j">> >>, << <<"o">> >> >>,
     low_priority  |-> << <<"o">>, <<"j","o">> >>,
     threshold     |-> <<1>>]

\* upper-case keywords, threshold 4
UpperCaseRules ==
    [high_priority |-> << << <<"J">>, <<"o">>, <<"j","-","o">> >> >>,
     low_priority  |-> << <<"O","O">> >>,
     threshold     |-> <<4>>]

RuleTables == {ScenarioRules, MultiWordRules, SharedTermRules, UpperCaseRules}

-----------------------------------------------------------------------------
(* A call of the rule scorer on one text *)

ScoreIdle ==
    /\ s_text = <<>> /\ s_pc = "off" /\ s_score = 0 /\ s_high = FALSE
    /\ s_label = None /\ s_term = <<>> /\ s_text2 = <<>> /\ s_score2 = 0

CfgDefault ==
    /\ mode = <<"l","l","m">> /\ creds = {} /\ bitly = FALSE

ClassIdle ==
    /\ c_emails = <<>> /\ c_outcomes = <<>> /\ c_classified = <<>>
    /\ c_i = 0 /\ c_pc = "off" /\ c_pyCalls = {}

NotifyIdle ==
    /\ now = 0 /\ notification_cache = <<>> /\ wa_calls = <<>> /\ notices = 0

DbIdle ==
    /\ store = <<>> /\ pending = <<>> /\ d_emails = <<>> /\ d_i = 0
    /\ new_count = 0 /\ skipped_count = 0 /\ d_pc = "off" /\ d_before = {}
    /\ d_log = <<>>

Threads == {1, 2}
Runs == {1, 2}

PreviewIdle == snippet = <<>> /\ truncated = <<>>

RaceIdle ==
    /\ t_pc = [j \in Threads |-> "off"]
    /\ t_now = [j \in Threads |-> 0]
    /\ t_last = [j \in Threads |-> <<>>]

ConcIdle ==
    /\ x_emails = [j \in Runs |-> <<>>] /\ x_i = [j \in Runs |-> 0]
    /\ x_pending = [j \in Runs |-> <<>>] /\ x_pc = [j \in Runs |-> "off"]
    /\ x_log = [j \in Runs |-> <<>>] /\ x_lock = 0

PipeIdle ==
    /\ p_pc = "off" /\ p_classified = <<>> /\ p_high = <<>> /\ p_k = 0
    /\ alerts_sent = 0 /\ p_result = [status |-> "none"] /\ p_alerted = {}

InitScore ==
    /\ rules \in RuleTables
    /\ CfgDefault
    /\ ClassIdle
    /\ NotifyIdle
    /\ DbIdle
    /\ PreviewIdle
    /\ RaceIdle
    /\ ConcIdle
    /\ PipeIdle
    /\ s_text \in Texts
    /\ s_pc = "input"
    /\ s_score = 0 /\ s_high = FALSE /\ s_label = None
    /\ s_term = <<>> /\ s_text2 = <<>> /\ s_score2 = 0

\* is_high_priority(text), and classify_email_python on a message made of it
ScoreText ==
    /\ s_pc = "input"
    /\ s_score' = rule_score(s_text, rules)
    /\ s_high' = is_high_priority(s_text, rules)
    /\ s_label' = classify_email_python([subject |-> s_text, body |-> <<>>], rules)
    /\ s_pc' = "scored"
    /\ UNCHANGED <<s_text, s_term, s_text2, s_score2, cfgVars, auxVars, classVars, notifyVars, dbVars, pipeVars>>

\* the same text with a low-priority term added after a space, scored again
AddLowTerm ==
    /\ s_pc = "scored"
    /\ \E k \in DOMAIN LOW_PRIORITY_TERMS(rules) :
        LET w == LOW_PRIORITY_TERMS(rules)[k]
            t2 == s_text \o <<" ">> \o w
        IN  /\ s_term' = w
            /\ s_text2' = t2
            /\ s_score2' = rule_score(t2, rules)
    /\ s_pc' = "added"
    /\ UNCHANGED <<s_text, s_score, s_high, s_label, cfgVars, auxVars, classVars, notifyVars, dbVars, pipeVars>>

NextScore == ScoreText \/ AddLowTerm

SpecScore == InitScore /\ [][NextScore]_vars

-----------------------------------------------------------------------------
(* Properties of the rule scorer, checked under SpecScore *)

\* keyword occurs in text delimited on both sides by a non-word character or
\* by an end of the text
WholeWordOccurs(keyword, text) ==
    \E i \in 1..(Len(text) - Len(keyword) + 1) :
        /\ SubSeq(text, i, i + Len(keyword) - 1) = keyword
        /\ (i = 1 \/ text[i - 1] \notin WordChars)
        /\ (i + Len(keyword) > Len(text) \/ text[i + Len(keyword)] \notin WordChars)

MatchedEntries(keywords, text) ==
    {k \in DOMAIN keywords : WholeWordOccurs(str_lower(keywords[k]), str_lower(text))}

\* C6: is_high_priority(text) is true iff 2 x (entries of the flattened
\* high-priority list that occur in the lowercased text as a whole word) minus
\* 3 x (low-priority terms that occur as a whole word) is >= the threshold
\* (2 when the rules give none); the result is a function of (text, rules).
C6_RuleScorerDecision ==
    s_pc \in {"scored", "added"} =>
        LET nHigh == Cardinality(MatchedEntries(Flatten(rules.high_priority), s_text))
            nLow == Cardinality(MatchedEntries(rules.low_priority, s_text))
            limit == IF rules.threshold = <<>> THEN 2 ELSE rules.threshold[1]
        IN  /\ s_score = 2 * nHigh - 3 * nLow
            /\ s_high = (2 * nHigh - 3 * nLow >= limit)

C6_Witness ==
    /\ s_pc = "scored"
    /\ s_high
    /\ Cardinality(MatchedEntries(rules.low_priority, s_text)) >= 1
    /\ Cardinality(MatchedEntries(Flatten(rules.high_priority), s_text)) >= 3

\* C7: with rules {high: [interview, offer], low: [newsletter], threshold: 2},
\* "Interview offer next week" scores 4 and is High Priority, "Weekly
\* newsletter digest" scores -3 and is Low Priority, and the empty text scores
\* 0 and is Low Priority.
C7_RuleScorerScenarios ==
    (rules = ScenarioRules /\ s_pc \in {"scored", "added"}) =>
        /\ s_text = InterviewText => (s_score = 4 /\ s_label = "High Priority")
        /\ s_text = NewsletterText => (s_score = -3 /\ s_label = "Low Priority")
        /\ s_text = <<>> => (s_score = 0 /\ s_label = "Low Priority")

C7_Witness ==
    /\ rules = ScenarioRules
    /\ s_pc = "scored"
    /\ s_text = InterviewText
    /\ s_label = "High Priority"

\* C8 as stated: the score of a text with a low-priority term added to it is
\* less than or equal to the score of the text.
C8_ScoreMonotone ==
    s_pc = "added" => s_score2 <= s_score

NewlyMatchedHigh ==
    {k \in DOMAIN HIGH_PRIORITY_KEYWORDS(rules) :
        /\ re_search_word(str_lower(HIGH_PRIORITY_KEYWORDS(rules)[k]), str_lower(s_text2))
        /\ ~re_search_word(str_lower(HIGH_PRIORITY_KEYWORDS(rules)[k]), str_lower(s_text))}

\* C8 as amended: adding a low-priority term to a text raises the score by at
\* most 2 for each high-priority entry that matches the extended text and did
\* not match the text; when no high-priority entry newly matches, the score
\* of the extended text is less than or equal to the score of the text.
C8_ScoreMonotoneAmended ==
    s_pc = "added" => s_score2 <= s_score + 2 * Cardinality(NewlyMatchedHigh)

C8_Witness ==
    /\ s_pc = "added"
    /\ NewlyMatchedHigh = {}
    /\ s_score2 = s_score - 3

-----------------------------------------------------------------------------
(* Calls of classify_emails_bulk *)

\* the messages the mail source yields (email_ops/email_reader.py builds
\* id, from, subject, body, date)
SENDER_A == <<"a","@","x",".","c","o","m">>
SENDER_B == <<"b","@","x",".","c","o","m">>

SampleEmails ==
    { [id |-> "m1", from |-> SENDER_A, subject |-> <<"j">>, body |-> <<"o">>,
       date |-> "d1"],
      [id |-> "m2", from |-> SENDER_A, subject |-> <<"O">>, body |-> <<>>,
       date |-> "d2"],
      [id |-> "m3", from |-> SENDER_B, subject |-> InterviewText, body |-> <<>>,
       date |-> "d3"] }

RECURSIVE SeqsUpTo(_, _)
SeqsUpTo(S, n) ==
    IF n = 0 THEN {<<>>}
    ELSE LET shorter == SeqsUpTo(S, n - 1)
         IN  shorter \cup {Append(t, x) : t \in {u \in shorter : Len(u) = n - 1},
                                         x \in S}

Batches == SeqsUpTo(SampleEmails, MaxBatch)

HighPriorityReply == <<"H","i","g","h"," ","P","r","i","o","r","i","t","y">>
MaybeReply == <<"m","a","y","b","e","?">>

\* replies that contain both words, in either order
LowThenHighReply == <<"l","o","w",","," ","n","o","t"," ","h","i","g","h">>
HighThenLowReply == <<"H","i","g","h","/","l","o","w">>

ReplyTexts ==
    { HighPriorityReply, MaybeReply,
      <<" ","L","O","W","\n">>,
      LowThenHighReply, HighThenLowReply }

BackendOutcomes ==
    [kind : {"text"}, content : ReplyTexts]
    \cup [kind : {"not_text", "invoke_raises", "ctor_raises"}, content : {<<>>}]

NoCall == [kind |-> "no_call", content |-> <<>>]

Modes == {LLM_MODE, <<"L","L","M">>, <<"r","u","l","e">>}

\* the configurations of the classifier: both rule tables under "llm" and
\* "rule", and the scenario rules under a mode spelled in upper case
ClassifierSettings ==
    {<<r, m>> : r \in {ScenarioRules, SharedTermRules},
                m \in {LLM_MODE, <<"r","u","l","e">>}}
    \cup {<<ScenarioRules, <<"L","L","M">> >>}

InitClassify ==
    /\ \E setting \in ClassifierSettings :
        /\ rules = setting[1]
        /\ mode = setting[2]
    /\ mode \in Modes
    /\ creds = {} /\ bitly = FALSE
    /\ ScoreIdle
    /\ NotifyIdle
    /\ DbIdle
    /\ PreviewIdle
    /\ RaceIdle
    /\ ConcIdle
    /\ PipeIdle
    /\ c_emails \in Batches
    /\ c_outcomes = <<>> /\ c_classified = <<>>
    /\ c_i = 1 /\ c_pc = "loop" /\ c_pyCalls = {}

\* one iteration of "for e in emails"
ClassifyStep ==
    /\ c_pc = "loop"
    /\ c_i <= Len(c_emails)
    /\ \E outcome \in (IF str_lower(mode) = LLM_MODE THEN BackendOutcomes ELSE {NoCall}) :
        LET r == classify_one(mode, c_emails[c_i], outcome, rules)
        IN  /\ c_outcomes' = Append(c_outcomes, outcome)
            /\ c_pyCalls' = IF r.pyCalled THEN c_pyCalls \cup {c_i} ELSE c_pyCalls
            /\ IF r.raised
               THEN /\ c_pc' = "raised"
                    /\ UNCHANGED <<c_classified, c_i>>
               ELSE /\ c_classified' = bulk_append(c_classified, c_emails[c_i], r.label)
                    /\ c_i' = c_i + 1
                    /\ c_pc' = "loop"
    /\ UNCHANGED <<c_emails, cfgVars, auxVars, scoreVars, notifyVars, dbVars, pipeVars>>

\* the end of the loop: return classified
ClassifyReturn ==
    /\ c_pc = "loop"
    /\ c_i > Len(c_emails)
    /\ c_pc' = "done"
    /\ UNCHANGED <<c_emails, c_outcomes, c_classified, c_i, c_pyCalls, cfgVars, auxVars, scoreVars, notifyVars, dbVars, pipeVars>>

NextClassify == ClassifyStep \/ ClassifyReturn

SpecClassify == InitClassify /\ [][NextClassify]_vars

-----------------------------------------------------------------------------
(* Properties of the unified classifier, checked under SpecClassify *)

InLlmMode == str_lower(mode) = LLM_MODE

\* the message without the priority annotation
Unlabelled(e) == [k \in DOMAIN e \ {"priority"} |-> e[k]]

\* C3 as stated: in "llm" mode, if every call of llm.invoke raises, every
\* message of the batch gets the label classify_email_python gives it.
C3_FallbackEqualsRuleScorer ==
    (/\ c_pc = "done"
     /\ InLlmMode
     /\ \A i \in DOMAIN c_outcomes : c_outcomes[i].kind = "invoke_raises") =>
        \A i \in DOMAIN c_classified :
            c_classified[i].priority = classify_email_python(c_emails[i], rules)

\* C5: in both modes, for every message and every backend outcome,
\* classify_emails_bulk never raises and every message classified so far has
\* exactly one of the two labels; when it returns, every message has one.
C5_ClassificationTotal ==
    /\ c_pc # "raised"
    /\ \A i \in DOMAIN c_classified :
           c_classified[i].priority \in {"High Priority", "Low Priority"}
    /\ c_pc = "done" => Len(c_classified) = Len(c_emails)

C5_Witness ==
    /\ c_pc = "done"
    /\ InLlmMode
    /\ Len(c_classified) = 2
    /\ c_outcomes[1].kind = "ctor_raises"
    /\ c_outcomes[2].kind = "not_text"
    /\ c_classified[1].priority = "High Priority"
    /\ c_classified[2].priority = "Low Priority"

\* C9: in "llm" mode a response whose lowercased text contains "high" yields
\* High Priority without a call of the rule scorer; one that contains "low"
\* and not "high" yields Low Priority without a call of the rule scorer; one
\* that contains neither yields the rule scorer's label for the same message.
C9_ResponseNormalization ==
    InLlmMode =>
        \A i \in DOMAIN c_classified :
            c_outcomes[i].kind = "text" =>
                LET reply == str_lower(c_outcomes[i].content)
                    hasHigh == str_contains(HIGH_WORD, reply)
                    hasLow == str_contains(LOW_WORD, reply)
                IN  /\ hasHigh =>
                        /\ c_classified[i].priority = "High Priority"
                        /\ i \notin c_pyCalls
                    /\ (hasLow /\ ~hasHigh) =>
                        /\ c_classified[i].priority = "Low Priority"
                        /\ i \notin c_pyCalls
                    /\ (~hasLow /\ ~hasHigh) =>
                        /\ c_classified[i].priority =
                               classify_email_python(c_emails[i], rules)
                        /\ i \in c_pyCalls

\* a "High Priority" reply for a message the rule scorer labels low, and a
\* "maybe?" reply for a message the rule scorer labels high
C9_Witness ==
    /\ InLlmMode
    /\ c_pc = "done"
    /\ Len(c_classified) = 2
    /\ c_outcomes[1] = [kind |-> "text", content |-> HighPriorityReply]
    /\ classify_email_python(c_emails[1], rules) = "Low Priority"
    /\ c_classified[1].priority = "High Priority"
    /\ c_outcomes[2] = [kind |-> "text", content |-> MaybeReply]
    /\ c_classified[2].priority = "High Priority"
    /\ c_pyCalls = {2}

\* C10: the list classify_emails_bulk builds holds, in input order, the
\* messages handled so far, each annotated with a priority (on return: all of
\* them, so the lengths agree); the label of a message is the one its own
\* content and its own backend outcome give, so messages with the same content
\* and outcome get the same label wherever they stand in the batch.
C10_BatchPreserved ==
    /\ c_pc \in {"loop", "done"} => Len(c_classified) = c_i - 1
    /\ c_pc = "done" => Len(c_classified) = Len(c_emails)
    /\ \A i \in DOMAIN c_classified :
        /\ Unlabelled(c_classified[i]) = c_emails[i]
        /\ "priority" \in DOMAIN c_classified[i]
        /\ c_classified[i].priority =
               classify_one(mode, c_emails[i], c_outcomes[i], rules).label
    /\ \A i, j \in DOMAIN c_classified :
        (c_emails[i] = c_emails[j] /\ c_outcomes[i] = c_outcomes[j]) =>
            c_classified[i].priority = c_classified[j].priority

C10_Witness ==
    /\ c_pc = "done"
    /\ Len(c_emails) = 2
    /\ c_emails[1].id = "m3" /\ c_emails[2].id = "m1"
    /\ c_classified[1].id = "m3" /\ c_classified[2].id = "m1"
    /\ c_classified[1].priority # c_classified[2].priority

\* the position of the first occurrence of needle in s, 0 when there is none
FirstIndex(needle, s) ==
    LET at == {i \in 1..(Len(s) - Len(needle) + 1) :
                  SubSeq(s, i, i + Len(needle) - 1) = needle}
    IN  IF at = {} THEN 0 ELSE CHOOSE i \in at : \A j \in at : i <= j

\* the replies, lowercased, in which both words occur
BothWords(i) ==
    /\ c_outcomes[i].kind = "text"
    /\ str_contains(HIGH_WORD, str_lower(c_outcomes[i].content))
    /\ str_contains(LOW_WORD, str_lower(c_outcomes[i].content))

\* C22 as stated: in "llm" mode, when the reply contains both "high" and
\* "low", the word that occurs first decides the label.
C22_FirstOccurrenceWins ==
    InLlmMode =>
        \A i \in DOMAIN c_classified :
            BothWords(i) =>
                LET reply == str_lower(c_outcomes[i].content)
                IN  c_classified[i].priority =
                        IF FirstIndex(LOW_WORD, reply) < FirstIndex(HIGH_WORD, reply)
                        THEN "Low Priority" ELSE "High Priority"

\* C22 as amended: in "llm" mode, when the reply contains both "high" and
\* "low", the label is High Priority whichever of the two occurs first ("high"
\* is tested before "low"), and the rule scorer is not called.
C22_HighTestedFirst ==
    InLlmMode =>
        \A i \in DOMAIN c_classified :
            BothWords(i) =>
                /\ c_classified[i].priority = "High Priority"
                /\ i \notin c_pyCalls

\* a reply with "low" before "high" and one with "high" before "low", for
\* messages the rule scorer labels low
C22_Witness ==
    /\ InLlmMode
    /\ c_pc = "done"
    /\ Len(c_classified) = 2
    /\ c_outcomes[1] = [kind |-> "text", content |-> LowThenHighReply]
    /\ c_outcomes[2] = [kind |-> "text", content |-> HighThenLowReply]
    /\ classify_email_python(c_emails[1], rules) = "Low Priority"
    /\ c_classified[1].priority = "High Priority"
    /\ c_classified[2].priority = "High Priority"

\* C18 as stated: when the backend call fails (the constructor or llm.invoke
\* raises) classify_with_llm raises, and the text it returns is always the
\* text the backend produced.
C18_AdapterSignalsFailure ==
    InLlmMode =>
        \A i \in DOMAIN c_outcomes :
            LET reply == classify_with_llm(c_outcomes[i])
            IN  /\ c_outcomes[i].kind \in {"invoke_raises", "ctor_raises"} =>
                       reply.raised
                /\ (~reply.raised /\ reply.isStr) =>
                       /\ c_outcomes[i].kind = "text"
                       /\ reply.value = c_outcomes[i].content

-----------------------------------------------------------------------------
(* Calls of send_whatsapp_message *)

Senders == {SENDER_A, SENDER_B}
TickSteps == {5, 9}

CredentialSettings ==
    {TwilioSettings, {}} \cup {TwilioSettings \ {x} : x \in TwilioSettings}

InitNotify ==
    /\ rules = ScenarioRules
    /\ mode = LLM_MODE
    /\ creds \in CredentialSettings
    /\ bitly \in BOOLEAN
    /\ ScoreIdle
    /\ ClassIdle
    /\ NotifyIdle
    /\ DbIdle
    /\ PreviewIdle
    /\ RaceIdle
    /\ ConcIdle
    /\ PipeIdle

\* time passes
Tick ==
    /\ \E d \in TickSteps :
        /\ now + d <= MaxTime
        /\ now' = now + d
    /\ UNCHANGED <<notification_cache, wa_calls, notices, cfgVars, auxVars, scoreVars, classVars, dbVars, pipeVars>>

\* send_whatsapp_message(subject, sender, priority, snippet, received_time)
SendCall ==
    /\ Len(wa_calls) < MaxCalls
    /\ \E sender \in Senders, b \in BitlyOutcomes, tr \in TransportOutcomes :
        LET r == send_whatsapp_message(sender, notification_cache, now,
                                       [bitly |-> b, transport |-> tr])
        IN  /\ notification_cache' = r.cache
            /\ wa_calls' = Append(wa_calls, CallRecord(sender, now, r))
    /\ UNCHANGED <<now, notices, cfgVars, auxVars, scoreVars, classVars, dbVars, pipeVars>>

NextNotify == Tick \/ SendCall

SpecNotify == InitNotify /\ [][NextNotify]_vars

-----------------------------------------------------------------------------
(* Properties of the notifier, checked under SpecNotify *)

Distance(a, b) == IF a >= b THEN a - b ELSE b - a

\* C1: with the credentials configured, of any two calls of
\* send_whatsapp_message for the same sender whose times are less than 15
\* minutes apart at most one calls client.messages.create; the second of two
\* calls 5 minutes apart, the first of which sent, sends nothing.
C1_Cooldown ==
    creds = TwilioSettings =>
        \A i, j \in DOMAIN wa_calls :
            (/\ i < j
             /\ wa_calls[i].sender = wa_calls[j].sender
             /\ Distance(wa_calls[i].at, wa_calls[j].at) < 15) =>
                ~(wa_calls[i].sent /\ wa_calls[j].sent)

C1_Witness ==
    /\ creds = TwilioSettings
    /\ Len(wa_calls) = 3
    /\ \A i \in 1..3 : wa_calls[i].sender = SENDER_A
    /\ wa_calls[1].sent /\ wa_calls[1].at = 0
    /\ ~wa_calls[2].sent /\ wa_calls[2].at = 5
    /\ wa_calls[3].sent /\ wa_calls[3].at = 15

C15_UnconfiguredNoOp ==
    creds # TwilioSettings =>
        /\ notification_cache = <<>>
        /\ \A i \in DOMAIN wa_calls :
               /\ ~wa_calls[i].raised
               /\ ~wa_calls[i].sent
               /\ ~wa_calls[i].link
               /\ wa_calls[i].shortener = "not_called"
               /\ wa_calls[i].stage = "no_credentials"

C15_Witness ==
    /\ creds = TwilioSettings \ {"TWILIO_WHATSAPP_TO"}
    /\ bitly
    /\ Len(wa_calls) = 3
    /\ wa_calls[1].sender = wa_calls[3].sender
    /\ wa_calls[3].at - wa_calls[1].at >= 15
    /\ notification_cache = <<>>

\* the call got past the cooldown test, and then the construction of the
\* client or client.messages.create failed
FailedAttempt(call) ==
    \/ call.stage = "client"
    \/ call.stage = "create" /\ call.outcome \in {"error", "expired"}

\* C19: after a call that got past the cooldown test and whose send (or
\* client construction) failed, every call for the same sender less than 15
\* minutes later is rejected by the cooldown test and sends nothing.
C19_CooldownFromAttempt ==
    \A i, j \in DOMAIN wa_calls :
        (/\ i < j
         /\ wa_calls[i].sender = wa_calls[j].sender
         /\ FailedAttempt(wa_calls[i])
         /\ wa_calls[j].at - wa_calls[i].at < NOTIFICATION_COOLDOWN) =>
            /\ wa_calls[j].stage = "cooldown"
            /\ ~wa_calls[j].sent

C19_Witness ==
    /\ Len(wa_calls) = 3
    /\ \A i \in 1..3 : wa_calls[i].sender = SENDER_A
    /\ wa_calls[1].at = 0 /\ wa_calls[1].outcome = "error" /\ wa_calls[1].sent
    /\ wa_calls[2].at = 9 /\ wa_calls[2].stage = "cooldown"
    /\ wa_calls[3].at = 18 /\ wa_calls[3].stage = "client"

\* the calls before call j, for the same sender, that got past the cooldown
\* test
AcceptedBefore(sender, j) ==
    {i \in 1..(j - 1) :
        /\ wa_calls[i].sender = sender
        /\ wa_calls[i].stage \in {"client", "create"}}

Latest(S) == CHOOSE i \in S : \A k \in S : k <= i

\* C27: with the credentials configured, a call is rejected by the cooldown
\* test exactly when less than 15 minutes have passed since the last accepted
\* call for its sender (at 15 minutes it is accepted), however many rejected
\* calls lie in between; notification_cache holds, for every sender, the time
\* of the last accepted call and nothing else, so a rejected call writes
\* nothing and no call touches another sender's entry.
C27_EligibilityFromLastAccepted ==
    creds = TwilioSettings =>
        /\ \A j \in DOMAIN wa_calls :
               LET accepted == AcceptedBefore(wa_calls[j].sender, j)
               IN  IF accepted = {}
                   THEN wa_calls[j].stage # "cooldown"
                   ELSE (wa_calls[j].stage = "cooldown") <=>
                        (wa_calls[j].at - wa_calls[Latest(accepted)].at < 15)
        /\ \A sender \in Senders :
               LET accepted == AcceptedBefore(sender, Len(wa_calls) + 1)
               IN  IF accepted = {}
                   THEN sender \notin DOMAIN notification_cache
                   ELSE /\ sender \in DOMAIN notification_cache
                        /\ notification_cache[sender] = wa_calls[Latest(accepted)].at
        /\ DOMAIN notification_cache \subseteq Senders

\* an accepted call, a call rejected 10 minutes later, and a call accepted
\* at exactly 15 minutes, while the other sender has no entry
C27_Witness ==
    /\ creds = TwilioSettings
    /\ Len(wa_calls) = 3
    /\ \A i \in 1..3 : wa_calls[i].sender = SENDER_B
    /\ wa_calls[1].at = 0 /\ wa_calls[1].stage = "create"
    /\ wa_calls[2].at = 10 /\ wa_calls[2].stage = "cooldown"
    /\ wa_calls[3].at = 15 /\ wa_calls[3].stage = "create"
    /\ notification_cache[SENDER_B] = 15
    /\ SENDER_A \notin DOMAIN notification_cache

-----------------------------------------------------------------------------
(* Calls of insert_emails *)

Labels == {"High Priority", "Low Priority"}

\* a message classified either way, and one that carries no priority
StoreEmails ==
    {SetPriority(e, p) : e \in {m \in SampleEmails : m.id = "m1"}, p \in Labels}
    \cup {m \in SampleEmails : m.id = "m2"}

\* batches of up to MaxBatch + 1 messages, so that a message can follow a
\* repeated id
StoreBatches == SeqsUpTo(StoreEmails, MaxBatch + 1)

InitDb ==
    /\ rules = ScenarioRules
    /\ CfgDefault
    /\ ScoreIdle
    /\ ClassIdle
    /\ NotifyIdle
    /\ DbIdle
    /\ PreviewIdle
    /\ RaceIdle
    /\ ConcIdle
    /\ PipeIdle

\* insert_emails(emails) up to the for loop
InsertCall(emails) ==
    /\ d_pc \in {"off", "done", "raised"}
    /\ d_emails' = emails
    /\ d_before' = Ids(store)
    /\ new_count' = 0 /\ skipped_count' = 0
    /\ pending' = <<>>
    /\ d_log' = <<>>
    /\ d_i' = 1
    /\ d_pc' = IF emails = <<>> THEN "done" ELSE "loop"
    /\ UNCHANGED store

\* the loop body without the existence check, and with a statement that
\* replaces the stored row of the same id
InsertStep_upsert ==
    /\ d_pc = "loop"
    /\ d_i <= Len(d_emails)
    /\ LET row == InsertedRow(d_emails[d_i])
       IN  IF row.id \in Ids(store)
           THEN store' = [k \in DOMAIN store |->
                             IF store[k].id = row.id THEN row ELSE store[k]]
           ELSE store' = Append(store, row)
    /\ new_count' = new_count + 1
    /\ d_log' = Append(d_log, "inserted")
    /\ d_i' = d_i + 1
    /\ UNCHANGED <<pending, skipped_count, d_emails, d_pc, d_before>>
    /\ UNCHANGED <<cfgVars, auxVars, scoreVars, classVars, notifyVars, pipeVars>>

\* one iteration of "for email in emails"
InsertStep ==
    /\ d_pc = "loop"
    /\ d_i <= Len(d_emails)
    /\ LET email == d_emails[d_i]
       IN  IF email_exists(email.id, store)
           THEN /\ skipped_count' = skipped_count + 1
                /\ d_log' = Append(d_log, "skipping")
                /\ UNCHANGED <<pending, new_count>>
           ELSE LET r == sql_insert(InsertedRow(email), store, pending)
                IN  /\ pending' = r.uncommitted
                    /\ new_count' = IF r.ok THEN new_count + 1 ELSE new_count
                    /\ d_log' = Append(d_log, IF r.ok THEN "inserted" ELSE "error")
                    /\ UNCHANGED skipped_count
    /\ d_i' = d_i + 1
    /\ UNCHANGED <<store, d_emails, d_pc, d_before>>
    /\ UNCHANGED <<cfgVars, auxVars, scoreVars, classVars, notifyVars, pipeVars>>

\* conn.commit(); conn.close(); the summary
InsertCommit ==
    /\ d_pc = "loop"
    /\ d_i > Len(d_emails)
    /\ store' = store \o pending
    /\ pending' = <<>>
    /\ d_pc' = "done"
    /\ UNCHANGED <<d_emails, d_i, new_count, skipped_count, d_before, d_log>>
    /\ UNCHANGED <<cfgVars, auxVars, scoreVars, classVars, notifyVars, pipeVars>>

\* an exception leaves insert_emails during the loop or at the commit
\* (email_exists or conn.commit() raising; no try encloses them), or the
\* process dies there: the connection is dropped without a commit, and SQLite
\* rolls back the rows it inserted
InsertInterrupt ==
    /\ d_pc = "loop"
    /\ pending' = <<>>
    /\ d_pc' = "raised"
    /\ UNCHANGED <<store, d_emails, d_i, new_count, skipped_count, d_before, d_log>>
    /\ UNCHANGED <<cfgVars, auxVars, scoreVars, classVars, notifyVars, pipeVars>>

\* a caller hands a batch to insert_emails
DbCall ==
    /\ \E emails \in StoreBatches : InsertCall(emails)
    /\ UNCHANGED <<cfgVars, auxVars, scoreVars, classVars, notifyVars, pipeVars>>

NextDb == DbCall \/ InsertStep \/ InsertCommit \/ InsertInterrupt

SpecDb == InitDb /\ [][NextDb]_vars

-----------------------------------------------------------------------------
(* Properties of the store, checked under SpecDb *)

RowsWithId(table, id) == {k \in DOMAIN table : table[k].id = id}

\* the positions of the batch that offer an id a second time: the id was
\* stored before the call, or stands earlier in the batch
SecondAttempts ==
    {i \in DOMAIN d_emails :
        \/ d_emails[i].id \in d_before
        \/ \E j \in 1..(i - 1) : d_emails[j].id = d_emails[i].id}

\* C2 as stated: when insert_emails returns, the store holds exactly one
\* record for every id of the batch, every second attempt (the id offered
\* earlier in the batch, or stored by an earlier batch) is counted in
\* skipped_count, and only the first attempts are counted in new_count.
C2_InsertIdempotent ==
    (d_pc = "done" /\ d_emails # <<>>) =>
        /\ \A i \in DOMAIN d_emails :
               Cardinality(RowsWithId(store, d_emails[i].id)) = 1
        /\ skipped_count = Cardinality(SecondAttempts)
        /\ new_count = Len(d_emails) - Cardinality(SecondAttempts)

StoredRows(table) == {table[k] : k \in DOMAIN table}

\* C11: no step of insert_emails changes or removes a stored record: every
\* record of the store is in the store, with the same fields (the priority
\* among them), after every step, whatever the later batches carry for its id.
C11_StoredRecordsFrozen ==
    [][\A row \in StoredRows(store) :
          /\ row \in StoredRows(store')
          /\ Cardinality(RowsWithId(store', row.id)) = 1]_vars

\* a later call that carried another priority for a stored id has returned,
\* and the stored priority is still the first one
C11_Witness ==
    /\ d_pc = "done"
    /\ \E i \in DOMAIN d_emails, k \in DOMAIN store :
        /\ d_emails[i].id \in d_before
        /\ store[k].id = d_emails[i].id
        /\ store[k].priority = "Low Priority"
        /\ InsertedRow(d_emails[i]).priority = "High Priority"
        /\ d_log[i] = "skipping"

\* the positions of the batch that offer an id for the first time
FirstAttempts == DOMAIN d_emails \ SecondAttempts

\* C12: an INSERT that fails (here: on the PRIMARY KEY) leaves the loop
\* running with the next message; every message of the batch is handled, and
\* when insert_emails returns every message that offered a new id is stored
\* with its fields, failed insertions before or after it notwithstanding.
C12_FailedInsertContinues ==
    /\ [](d_pc \in {"loop", "done"} /\ d_emails # <<>> => Len(d_log) = d_i - 1)
    /\ []((d_pc = "done" /\ d_emails # <<>>) =>
            /\ Len(d_log) = Len(d_emails)
            /\ \A i \in FirstAttempts :
                   /\ d_log[i] = "inserted"
                   /\ InsertedRow(d_emails[i]) \in StoredRows(store))
    /\ [][d_log' = Append(d_log, "error") =>
              (d_pc' = "loop" /\ d_i' = d_i + 1 /\ pending' = pending)]_vars

\* a batch whose second message failed on the key and whose third was stored
C12_Witness ==
    /\ d_pc = "done"
    /\ d_log = <<"inserted", "error", "inserted">>
    /\ d_emails[3].id # d_emails[1].id
    /\ InsertedRow(d_emails[3]) \in StoredRows(store)
    /\ new_count = 2

\* C28 as stated: when insert_emails returns, new_count is the number of
\* records the call added to the store, and new_count + skipped_count is the
\* number of messages of the batch.
C28_InsertAccounting ==
    (d_pc = "done" /\ d_emails # <<>>) =>
        /\ new_count = Cardinality(Ids(store) \ d_before)
        /\ new_count + skipped_count = Len(d_emails)

\* C20 as stated: when insert_emails is interrupted part-way through a batch
\* (an exception leaving the loop, or the process dying), every message the
\* loop reported as inserted before the interruption is in the store.
C20_EachRecordDurable ==
    d_pc = "raised" =>
        \A i \in DOMAIN d_log :
            d_log[i] = "inserted" => d_emails[i].id \in Ids(store)

-----------------------------------------------------------------------------
(* main.py: run_pipeline *)

\* "63016" in error_msg
IsSandboxExpired(error) == error = "expired"

\* the filter of step 4 letting every message through
HighPriorityOf_all(emails) == emails

\* high_priority = [e for e in classified_emails if e.get("priority") == "High Priority"]
RECURSIVE HighPriorityOf(_)
HighPriorityOf(emails) ==
    IF emails = <<>> THEN <<>>
    ELSE IF Head(emails).priority = "High Priority"
         THEN <<Head(emails)>> \o HighPriorityOf(Tail(emails))
         ELSE HighPriorityOf(Tail(emails))

\* the except branch of run_pipeline with a summary returned in place of the
\* HTTPException
pipeline_failure_summary(detail) ==
    [status |-> "success", processed_emails |-> 0, alerts_sent |-> 0]

\* except Exception as e: raise HTTPException(status_code=500, detail=str(e))
pipeline_failure(detail) == [status |-> "HTTPException", detail |-> detail]

InitPipeline ==
    /\ rules = SharedTermRules
    /\ mode \in {LLM_MODE, <<"r","u","l","e">>}
    /\ creds \in {TwilioSettings, TwilioSettings \ {"TWILIO_AUTH_TOKEN"}}
    /\ bitly \in BOOLEAN
    /\ ScoreIdle
    /\ ClassIdle
    /\ NotifyIdle
    /\ DbIdle
    /\ PreviewIdle
    /\ RaceIdle
    /\ ConcIdle
    /\ p_pc = "idle" /\ p_classified = <<>> /\ p_high = <<>> /\ p_k = 0
    /\ alerts_sent = 0 /\ p_result = [status |-> "none"] /\ p_alerted = {}

\* step 1: the fetch fails, and the exception leaves run_pipeline as an
\* HTTPException
FetchFails ==
    /\ p_pc = "idle"
    /\ p_pc' = "failed"
    /\ p_result' = pipeline_failure("fetch")
    /\ UNCHANGED <<p_classified, p_high, p_k, alerts_sent, p_alerted>>
    /\ UNCHANGED <<cfgVars, auxVars, scoreVars, classVars, notifyVars, dbVars>>

\* step 1: the fetch returns no message
FetchNothing ==
    /\ p_pc = "idle"
    /\ p_pc' = "done"
    /\ p_result' = [status |-> "success", processed_emails |-> 0, alerts_sent |-> 0]
    /\ UNCHANGED <<p_classified, p_high, p_k, alerts_sent, p_alerted>>
    /\ UNCHANGED <<cfgVars, auxVars, scoreVars, classVars, notifyVars, dbVars>>

\* step 1 returns messages; step 2 calls classify_emails_bulk(emails)
FetchAndClassify ==
    /\ p_pc = "idle"
    /\ \E emails \in Batches \ {<<>>} :
        /\ c_emails' = emails
        /\ c_outcomes' = <<>> /\ c_classified' = <<>>
        /\ c_i' = 1 /\ c_pc' = "loop" /\ c_pyCalls' = {}
    /\ p_pc' = "classify"
    /\ UNCHANGED <<p_classified, p_high, p_k, alerts_sent, p_result, p_alerted>>
    /\ UNCHANGED <<cfgVars, auxVars, scoreVars, notifyVars, dbVars>>

\* classified_emails = the list returned; step 3 calls insert_emails on it
StoreClassified ==
    /\ p_pc = "classify"
    /\ c_pc = "done"
    /\ p_classified' = c_classified
    /\ InsertCall(c_classified)
    /\ c_emails' = <<>> /\ c_outcomes' = <<>> /\ c_classified' = <<>>
    /\ c_i' = 0 /\ c_pc' = "off" /\ c_pyCalls' = {}
    /\ p_pc' = "store"
    /\ UNCHANGED <<p_high, p_k, alerts_sent, p_result, p_alerted>>
    /\ UNCHANGED <<cfgVars, auxVars, scoreVars, notifyVars>>

\* step 3: an exception left insert_emails, and leaves run_pipeline as an
\* HTTPException
StoreFails ==
    /\ p_pc = "store"
    /\ d_pc = "raised"
    /\ p_pc' = "failed"
    /\ p_result' = pipeline_failure("store")
    /\ UNCHANGED <<p_classified, p_high, p_k, alerts_sent, p_alerted>>
    /\ UNCHANGED <<cfgVars, auxVars, scoreVars, classVars, notifyVars, dbVars>>

\* insert_emails returned; step 4 filters the high-priority messages
StartAlerts ==
    /\ p_pc = "store"
    /\ d_pc = "done"
    /\ p_high' = HighPriorityOf(p_classified)
    /\ alerts_sent' = 0
    /\ p_k' = 1
    /\ p_pc' = "notify"
    /\ d_emails' = <<>> /\ d_i' = 0 /\ new_count' = 0 /\ skipped_count' = 0
    /\ d_pc' = "off" /\ d_before' = {} /\ d_log' = <<>>
    /\ UNCHANGED <<store, pending, p_classified, p_result, p_alerted>>
    /\ UNCHANGED <<cfgVars, auxVars, scoreVars, classVars, notifyVars>>

\* the loop body leaving the loop after a send that failed
AlertStep_break ==
    /\ p_pc = "notify"
    /\ p_k <= Len(p_high)
    /\ \E b \in BitlyOutcomes, tr \in TransportOutcomes, notice \in {"ok", "error"} :
        LET sender == p_high[p_k].from
            r == send_whatsapp_message(sender, notification_cache, now,
                                       [bitly |-> b, transport |-> tr])
        IN  /\ notification_cache' = r.cache
            /\ wa_calls' = Append(wa_calls, CallRecord(sender, now, r))
            /\ IF ~r.raised
               THEN /\ alerts_sent' = alerts_sent + 1
                    /\ p_k' = IF r.outcome = "error" THEN Len(p_high) + 1
                              ELSE p_k + 1
                    /\ UNCHANGED <<notices, p_pc, p_result>>
               ELSE IF IsSandboxExpired(r.outcome)
               THEN \* send_sandbox_expiry_notification(); break
                    IF notice = "ok"
                    THEN /\ notices' = notices + 1
                         /\ p_k' = Len(p_high) + 1
                         /\ UNCHANGED <<alerts_sent, p_pc, p_result>>
                    ELSE /\ p_pc' = "failed"
                         /\ p_result' = pipeline_failure("notice")
                         /\ UNCHANGED <<notices, alerts_sent, p_k>>
               ELSE /\ p_k' = p_k + 1
                    /\ UNCHANGED <<notices, alerts_sent, p_pc, p_result>>
    /\ UNCHANGED <<now, p_classified, p_high, p_alerted>>
    /\ UNCHANGED <<cfgVars, auxVars, scoreVars, classVars, dbVars>>

\* one iteration of "for email in high_priority"
AlertStep ==
    /\ p_pc = "notify"
    /\ p_k <= Len(p_high)
    /\ \E b \in BitlyOutcomes, tr \in TransportOutcomes, notice \in {"ok", "error"} :
        LET sender == p_high[p_k].from
            r == send_whatsapp_message(sender, notification_cache, now,
                                       [bitly |-> b, transport |-> tr])
        IN  /\ notification_cache' = r.cache
            /\ wa_calls' = Append(wa_calls, CallRecord(sender, now, r))
            /\ IF ~r.raised
               THEN /\ alerts_sent' = alerts_sent + 1
                    /\ p_k' = p_k + 1
                    /\ UNCHANGED <<notices, p_pc, p_result>>
               ELSE IF IsSandboxExpired(r.outcome)
               THEN \* send_sandbox_expiry_notification(); break
                    IF notice = "ok"
                    THEN /\ notices' = notices + 1
                         /\ p_k' = Len(p_high) + 1
                         /\ UNCHANGED <<alerts_sent, p_pc, p_result>>
                    ELSE /\ p_pc' = "failed"
                         /\ p_result' = pipeline_failure("notice")
                         /\ UNCHANGED <<notices, alerts_sent, p_k>>
               ELSE /\ p_k' = p_k + 1
                    /\ UNCHANGED <<notices, alerts_sent, p_pc, p_result>>
    /\ UNCHANGED <<now, p_classified, p_high, p_alerted>>
    /\ UNCHANGED <<cfgVars, auxVars, scoreVars, classVars, dbVars>>

\* the summary
Finish ==
    /\ p_pc = "notify"
    /\ p_k > Len(p_high)
    /\ p_pc' = "done"
    /\ p_result' = [status |-> "success", processed_emails |-> Len(p_classified),
                    alerts_sent |-> alerts_sent]
    /\ UNCHANGED <<p_classified, p_high, p_k, alerts_sent, p_alerted>>
    /\ UNCHANGED <<cfgVars, auxVars, scoreVars, classVars, notifyVars, dbVars>>

\* the minutes that pass between two iterations of the alert loop: a second
\* iteration falls inside the cooldown of the first, a third one after it
AlertTickSteps == {9}

\* time passes; the alert loop is the only reader of the clock, so the clock
\* is advanced there
AlertTick ==
    /\ p_pc = "notify"
    /\ \E d \in AlertTickSteps :
        /\ now + d <= MaxTime
        /\ now' = now + d
    /\ UNCHANGED <<notification_cache, wa_calls, notices, cfgVars, auxVars, scoreVars, classVars, dbVars, pipeVars>>

NextPipeline ==
    \/ FetchFails \/ FetchNothing \/ FetchAndClassify
    \/ ClassifyStep \/ ClassifyReturn \/ StoreClassified
    \/ InsertStep \/ InsertCommit \/ InsertInterrupt \/ StoreFails \/ StartAlerts
    \/ AlertStep \/ AlertTick \/ Finish

SpecPipeline == InitPipeline /\ [][NextPipeline]_vars

-----------------------------------------------------------------------------
(* Two runs of run_pipeline in one process *)

\* the minutes between the start of a run and the start of the next one:
\* longer than the cooldown
RunGapSteps == {16}

\* the ids of the messages of the run for which client.messages.create was
\* called and succeeded
AlertedInRun ==
    {p_high[k].id : k \in {i \in DOMAIN wa_calls :
                              /\ i \in DOMAIN p_high
                              /\ wa_calls[i].sent
                              /\ wa_calls[i].outcome = "ok"}}

\* the run is over and run_pipeline is called again in the same process: the
\* store and notification_cache are as the run left them
NextRun ==
    /\ p_pc \in {"done", "failed"}
    /\ \E d \in RunGapSteps :
        /\ now + d <= MaxTime
        /\ now' = now + d
    /\ p_alerted' = p_alerted \cup AlertedInRun
    /\ wa_calls' = <<>>
    /\ p_pc' = "idle" /\ p_classified' = <<>> /\ p_high' = <<>> /\ p_k' = 0
    /\ alerts_sent' = 0 /\ p_result' = [status |-> "none"]
    /\ UNCHANGED <<notification_cache, notices>>
    /\ UNCHANGED <<cfgVars, auxVars, scoreVars, classVars, dbVars>>

\* a process configured with the "llm" mode and all Twilio settings
InitRerun ==
    /\ rules = ScenarioRules
    /\ mode = LLM_MODE
    /\ creds = TwilioSettings
    /\ bitly = FALSE
    /\ ScoreIdle
    /\ ClassIdle
    /\ NotifyIdle
    /\ DbIdle
    /\ PreviewIdle
    /\ RaceIdle
    /\ ConcIdle
    /\ p_pc = "idle" /\ p_classified = <<>> /\ p_high = <<>> /\ p_k = 0
    /\ alerts_sent = 0 /\ p_result = [status |-> "none"] /\ p_alerted = {}

\* the messages that the fetch windows of two successive runs can share
RerunEmails == {e \in SampleEmails : e.id \in {"m1", "m3"}}

\* what a fetch returns: one message, or two different ones
RerunBatches ==
    {<<e>> : e \in RerunEmails}
    \cup {b \in {<<e, f>> : e \in RerunEmails, f \in RerunEmails} : b[1] # b[2]}

\* step 1 returns messages of the window; step 2 calls
\* classify_emails_bulk(emails)
FetchWindow ==
    /\ p_pc = "idle"
    /\ \E emails \in RerunBatches :
        /\ c_emails' = emails
        /\ c_outcomes' = <<>> /\ c_classified' = <<>>
        /\ c_i' = 1 /\ c_pc' = "loop" /\ c_pyCalls' = {}
    /\ p_pc' = "classify"
    /\ UNCHANGED <<p_classified, p_high, p_k, alerts_sent, p_result, p_alerted>>
    /\ UNCHANGED <<cfgVars, auxVars, scoreVars, notifyVars, dbVars>>

NextRerun ==
    \/ FetchFails \/ FetchNothing \/ FetchWindow
    \/ ClassifyStep \/ ClassifyReturn \/ StoreClassified
    \/ InsertStep \/ InsertCommit \/ InsertInterrupt \/ StoreFails \/ StartAlerts
    \/ AlertStep \/ AlertTick \/ Finish
    \/ NextRun

SpecRerun == InitRerun /\ [][NextRerun]_vars

-----------------------------------------------------------------------------
(* Properties of successive runs *)

IsHigh(e) == e.priority = "High Priority"

\* the messages of the batch labelled "High Priority", in batch order
HighOnly == SelectSeq(p_classified, IsHigh)

StoredPriority(id) == (CHOOSE row \in StoredRows(store) : row.id = id).priority

\* C25: no call of the dispatcher is made before insert_emails has returned
\* for the whole batch (every id of the batch is in the store and nothing is
\* left uncommitted); the calls are made for the "High Priority" messages of
\* the batch in batch order, one call each, whether the store inserted or
\* skipped the message, and for no other message; a fetch that returns no
\* message ends the run without a step of the classifier, the store or the
\* dispatcher.
C25_StageOrderAndFilter ==
    /\ [](/\ wa_calls # <<>> =>
              /\ p_pc \in {"notify", "done"}
              /\ d_pc = "off" /\ pending = <<>>
              /\ \A i \in DOMAIN p_classified : p_classified[i].id \in Ids(store)
          /\ Len(wa_calls) <= Len(HighOnly)
          /\ \A k \in DOMAIN wa_calls : wa_calls[k].sender = HighOnly[k].from
          /\ (p_pc = "done" /\ p_classified # <<>>) => Len(wa_calls) = Len(HighOnly))
    /\ [][(p_pc = "idle" /\ p_pc' = "done") =>
              UNCHANGED <<classVars, dbVars, notifyVars>>]_vars

\* a second run has ended: its batch carried m3 labelled "Low Priority" and
\* then m1, which the first run had stored and alerted, labelled
\* "High Priority"; the one call of the dispatcher was for m1
C25_Witness ==
    /\ p_pc = "done"
    /\ p_alerted = {"m1"}
    /\ Len(p_classified) = 2
    /\ p_classified[1].id = "m3" /\ p_classified[1].priority = "Low Priority"
    /\ p_classified[2].id = "m1" /\ p_classified[2].priority = "High Priority"
    /\ "m3" \in Ids(store)
    /\ Len(wa_calls) = 1
    /\ wa_calls[1].sender = SENDER_A /\ wa_calls[1].sent

\* C21: a run never invokes the classifier for a message whose id is in the
\* store, and the label a run uses for a stored id is the stored priority.
C21_StoredNotReclassified ==
    /\ \A i \in DOMAIN c_outcomes : c_emails[i].id \notin Ids(store)
    /\ \A i \in DOMAIN p_classified :
          p_classified[i].id \in Ids(store) =>
              p_classified[i].priority = StoredPriority(p_classified[i].id)

\* C29: a message that an earlier run of the process alerted, and that is in
\* the store, is not sent to the transport again.
C29_NoSecondAlert ==
    \A k \in DOMAIN wa_calls :
        (k \in DOMAIN p_high /\ p_high[k].id \in p_alerted
                             /\ p_high[k].id \in Ids(store)) =>
            ~(wa_calls[k].sent /\ wa_calls[k].outcome = "ok")

-----------------------------------------------------------------------------
(* Properties of the orchestrator, checked under SpecPipeline *)

\* C4 as stated: when client.messages.create fails with the session-expired
\* error (63016) for a message of the batch, no later call of the run sends,
\* and the finished run has emitted exactly one administrative notice.
C4_SessionExpiryHalts ==
    \A i \in DOMAIN wa_calls :
        wa_calls[i].outcome = "expired" =>
            /\ \A j \in DOMAIN wa_calls : j > i => ~wa_calls[j].sent
            /\ p_pc = "done" => notices = 1

\* C13: in a run in which client.messages.create failed with a generic error
\* for a message, the alert loop goes on: send_whatsapp_message is called for
\* every high-priority message of the batch, in order, and the run ends with
\* a success summary, never with a failure.
C13_GenericErrorContinues ==
    (\E i \in DOMAIN wa_calls : wa_calls[i].outcome = "error") =>
        /\ p_pc \in {"notify", "done"}
        /\ p_pc = "notify" => Len(wa_calls) = p_k - 1
        /\ p_pc = "done" =>
               /\ Len(wa_calls) = Len(p_high)
               /\ \A k \in DOMAIN p_high : wa_calls[k].sender = p_high[k].from
               /\ p_result.status = "success"

C13_Witness ==
    /\ p_pc = "done"
    /\ Len(p_high) = 2
    /\ Len(wa_calls) = 2
    /\ wa_calls[1].outcome = "error" /\ wa_calls[1].sent
    /\ wa_calls[2].outcome = "ok" /\ wa_calls[2].sent
    /\ p_result.status = "success"

\* the calls of the run for which client.messages.create was called and
\* succeeded
SuccessfulSends ==
    {i \in DOMAIN wa_calls : wa_calls[i].sent /\ wa_calls[i].outcome = "ok"}

\* C16 as stated: in the summary run_pipeline returns, processed_emails is the
\* number of messages classified and alerts_sent the number of calls of
\* send_whatsapp_message for which client.messages.create was called and
\* succeeded.
C16_SummaryCounts ==
    p_pc = "done" =>
        /\ p_result.processed_emails = Len(p_classified)
        /\ p_result.alerts_sent = Cardinality(SuccessfulSends)

\* C17: a run that fails ends with an HTTPException and no summary, and
\* nothing of the run follows the failure; a run returns a summary only when
\* no stage raised; when the fetch fails, nothing was classified, stored or
\* dispatched.
C17_PipelineFailure ==
    /\ [](p_pc = "failed" <=> p_result.status = "HTTPException")
    /\ [](p_pc = "failed" => DOMAIN p_result = {"status", "detail"})
    /\ [](p_pc = "done" => (p_result.status = "success" /\ d_pc # "raised"))
    /\ []((p_pc = "failed" /\ p_result.detail = "fetch") =>
            /\ c_pc = "off" /\ c_outcomes = <<>> /\ p_classified = <<>>
            /\ d_pc = "off" /\ store = <<>> /\ pending = <<>>
            /\ wa_calls = <<>> /\ notices = 0)
    /\ [][p_pc # "failed"]_vars

\* the store stage raised after a message was classified and inserted, and
\* the run ended with the HTTPException
C17_Witness ==
    /\ p_pc = "failed"
    /\ p_result = pipeline_failure("store")
    /\ Len(p_classified) = 2
    /\ d_log = <<"inserted">>
    /\ wa_calls = <<>>

-----------------------------------------------------------------------------
(* One call of send_whatsapp_message with its snippet *)

MaxBodyLen == 602

Alphabet == <<"a","b","c","d","e","f","g">>

\* a body of n characters that differ from one position to the next
BodyOf(n, k) == [i \in 1..n |-> Alphabet[((i + k) % 7) + 1]]

Snippets == {BodyOf(n, k) : n \in 0..MaxBodyLen, k \in {0, 3}}

InitPreview ==
    /\ rules = ScenarioRules
    /\ mode = LLM_MODE
    /\ creds = TwilioSettings
    /\ bitly \in BOOLEAN
    /\ ScoreIdle
    /\ ClassIdle
    /\ NotifyIdle
    /\ DbIdle
    /\ PipeIdle
    /\ RaceIdle
    /\ ConcIdle
    /\ snippet \in Snippets
    /\ truncated = <<>>

\* send_whatsapp_message(subject, sender, priority, snippet): the preview is
\* built inside the try block, after Client(...) and shorten_gmail_link
PreviewSend ==
    /\ wa_calls = <<>>
    /\ \E b \in BitlyOutcomes, tr \in TransportOutcomes :
        LET r == send_whatsapp_message(SENDER_A, notification_cache, now,
                                       [bitly |-> b, transport |-> tr])
        IN  /\ notification_cache' = r.cache
            /\ wa_calls' = <<CallRecord(SENDER_A, now, r)>>
            /\ truncated' = IF r.stage = "create"
                            THEN <<truncate_preview(snippet)>>
                            ELSE <<>>
    /\ UNCHANGED <<now, notices, snippet>>
    /\ UNCHANGED <<cfgVars, scoreVars, classVars, dbVars, pipeVars, raceVars, concVars>>

NextPreview == PreviewSend

SpecPreview == InitPreview /\ [][NextPreview]_vars

\* C26: the preview of a call that reached line 92 is the snippet itself
\* when the snippet has at most 600 characters, and otherwise the first 600
\* characters of the snippet, position by position, followed by the marker
\* and nothing else.
C26_PreviewTruncation ==
    truncated # <<>> =>
        LET preview == truncated[1]
            m == Len(TRUNCATION_MARKER)
        IN  IF Len(snippet) <= 600
            THEN preview = snippet
            ELSE /\ Len(preview) = 600 + m
                 /\ \A i \in 1..600 : preview[i] = snippet[i]
                 /\ \A j \in 1..m : preview[600 + j] = TRUNCATION_MARKER[j]

\* a call with a snippet of 601 characters built a preview of 600 characters
\* and the marker
C26_Witness ==
    /\ truncated # <<>>
    /\ Len(snippet) = 601
    /\ Len(truncated[1]) = 600 + Len(TRUNCATION_MARKER)
    /\ truncated[1][600] = snippet[600]
    /\ truncated[1][601] = "\n"

-----------------------------------------------------------------------------
(* Two threads inside send_whatsapp_message for the same sender.  Nothing in
   notifiers/whatsapp_notifiers.py serialises the statements of
   can_send_notification, so the threads take them in any order. *)

InitRace ==
    /\ rules = ScenarioRules
    /\ mode = LLM_MODE
    /\ creds = TwilioSettings
    /\ bitly = FALSE
    /\ ScoreIdle
    /\ ClassIdle
    /\ NotifyIdle
    /\ DbIdle
    /\ PipeIdle
    /\ PreviewIdle
    /\ ConcIdle
    /\ t_pc = [j \in Threads |-> "start"]
    /\ t_now = [j \in Threads |-> 0]
    /\ t_last = [j \in Threads |-> <<>>]

\* now = datetime.now(); last_sent = notification_cache.get(sender)
RaceRead ==
    /\ \E j \in Threads :
        /\ t_pc[j] = "start"
        /\ t_now' = [t_now EXCEPT ![j] = now]
        /\ t_last' = [t_last EXCEPT ![j] =
                         IF SENDER_A \in DOMAIN notification_cache
                         THEN <<notification_cache[SENDER_A]>> ELSE <<>>]
        /\ t_pc' = [t_pc EXCEPT ![j] = "compare"]
    /\ UNCHANGED <<notifyVars, cfgVars, scoreVars, classVars, dbVars, pipeVars>>
    /\ UNCHANGED <<previewVars, concVars>>

\* if last_sent and now - last_sent < NOTIFICATION_COOLDOWN: return False;
\* send_whatsapp_message then returns without sending
RaceCompare ==
    /\ \E j \in Threads :
        /\ t_pc[j] = "compare"
        /\ IF t_last[j] # <<>> /\ t_now[j] - t_last[j][1] < NOTIFICATION_COOLDOWN
           THEN /\ t_pc' = [t_pc EXCEPT ![j] = "done"]
                /\ wa_calls' = Append(wa_calls,
                       CallRecord(SENDER_A, t_now[j],
                          [sent |-> FALSE, link |-> FALSE, outcome |-> "none",
                           shortener |-> "not_called", stage |-> "cooldown",
                           raised |-> FALSE]))
           ELSE /\ t_pc' = [t_pc EXCEPT ![j] = "write"]
                /\ UNCHANGED wa_calls
    /\ UNCHANGED <<now, notification_cache, notices, t_now, t_last>>
    /\ UNCHANGED <<cfgVars, scoreVars, classVars, dbVars, pipeVars>>
    /\ UNCHANGED <<previewVars, concVars>>

\* notification_cache[sender] = now; return True
RaceWrite ==
    /\ \E j \in Threads :
        /\ t_pc[j] = "write"
        /\ notification_cache' =
               [k \in DOMAIN notification_cache \cup {SENDER_A} |->
                   IF k = SENDER_A THEN t_now[j] ELSE notification_cache[k]]
        /\ t_pc' = [t_pc EXCEPT ![j] = "send"]
    /\ UNCHANGED <<now, wa_calls, notices, t_now, t_last>>
    /\ UNCHANGED <<cfgVars, scoreVars, classVars, dbVars, pipeVars>>
    /\ UNCHANGED <<previewVars, concVars>>

\* the try block of send_whatsapp_message once can_send_notification has
\* returned True
RaceSend ==
    /\ \E j \in Threads, b \in BitlyOutcomes, tr \in TransportOutcomes :
        /\ t_pc[j] = "send"
        /\ wa_calls' = Append(wa_calls,
               CallRecord(SENDER_A, t_now[j],
                          send_whatsapp_message(SENDER_A, <<>>, t_now[j],
                                                [bitly |-> b, transport |-> tr])))
        /\ t_pc' = [t_pc EXCEPT ![j] = "done"]
    /\ UNCHANGED <<now, notification_cache, notices, t_now, t_last>>
    /\ UNCHANGED <<cfgVars, scoreVars, classVars, dbVars, pipeVars>>
    /\ UNCHANGED <<previewVars, concVars>>

NextRace == RaceRead \/ RaceCompare \/ RaceWrite \/ RaceSend \/ Tick

SpecRace == InitRace /\ [][NextRace]_vars

\* C23: of two calls for the same sender that run concurrently, less than 15
\* minutes apart, at most one calls client.messages.create.
C23_OneSendUnderInterleaving ==
    \A i \in DOMAIN wa_calls : \A k \in DOMAIN wa_calls :
        (i < k /\ wa_calls[i].sent /\ wa_calls[k].sent) =>
            Distance(wa_calls[i].at, wa_calls[k].at) >= NOTIFICATION_COOLDOWN

-----------------------------------------------------------------------------
(* Two calls of insert_emails at the same time, each on its own connection
   to emails_info.db.  SQLite gives the write lock to one connection at a
   time, from its first INSERT to its commit; an INSERT on the other
   connection raises "database is locked" once its busy timeout has passed. *)

ConcBatches == SeqsUpTo(StoreEmails, MaxBatch) \ {<<>>}

InitConc ==
    /\ rules = ScenarioRules
    /\ CfgDefault
    /\ ScoreIdle
    /\ ClassIdle
    /\ NotifyIdle
    /\ DbIdle
    /\ PipeIdle
    /\ PreviewIdle
    /\ RaceIdle
    /\ x_emails \in [Runs -> ConcBatches]
    /\ x_i = [j \in Runs |-> 1]
    /\ x_pending = [j \in Runs |-> <<>>]
    /\ x_pc = [j \in Runs |-> "check"]
    /\ x_log = [j \in Runs |-> <<>>]
    /\ x_lock = 0

\* if email_exists(email_id): ... skipped_count += 1; continue
ConcCheck ==
    /\ \E j \in Runs :
        /\ x_pc[j] = "check"
        /\ x_i[j] <= Len(x_emails[j])
        /\ IF email_exists(x_emails[j][x_i[j]].id, store)
           THEN /\ x_log' = [x_log EXCEPT ![j] = Append(@, "skipping")]
                /\ x_i' = [x_i EXCEPT ![j] = @ + 1]
                /\ UNCHANGED x_pc
           ELSE /\ x_pc' = [x_pc EXCEPT ![j] = "insert"]
                /\ UNCHANGED <<x_log, x_i>>
    /\ UNCHANGED <<store, x_emails, x_pending, x_lock>>
    /\ UNCHANGED <<pending, d_emails, d_i, new_count, skipped_count, d_pc, d_before, d_log>>
    /\ UNCHANGED <<cfgVars, scoreVars, classVars, notifyVars, pipeVars>>
    /\ UNCHANGED <<previewVars, raceVars>>

\* try: cursor.execute(INSERT ...) except Exception: print.  The statement
\* needs the write lock: held by the other connection it raises "database is
\* locked"; otherwise the connection takes the lock and keeps it until its
\* commit, whether or not the row is accepted
ConcInsert ==
    /\ \E j \in Runs :
        /\ x_pc[j] = "insert"
        /\ IF x_lock \notin {0, j}
           THEN /\ x_log' = [x_log EXCEPT ![j] = Append(@, "error")]
                /\ UNCHANGED <<x_pending, x_lock>>
           ELSE LET r == sql_insert(InsertedRow(x_emails[j][x_i[j]]), store,
                                    x_pending[j])
                IN  /\ x_pending' = [x_pending EXCEPT ![j] = r.uncommitted]
                    /\ x_log' = [x_log EXCEPT ![j] =
                                    Append(@, IF r.ok THEN "inserted" ELSE "error")]
                    /\ x_lock' = j
        /\ x_i' = [x_i EXCEPT ![j] = @ + 1]
        /\ x_pc' = [x_pc EXCEPT ![j] = "check"]
    /\ UNCHANGED <<store, x_emails>>
    /\ UNCHANGED <<pending, d_emails, d_i, new_count, skipped_count, d_pc, d_before, d_log>>
    /\ UNCHANGED <<cfgVars, scoreVars, classVars, notifyVars, pipeVars>>
    /\ UNCHANGED <<previewVars, raceVars>>

\* conn.commit(); conn.close()
ConcCommit ==
    /\ \E j \in Runs :
        /\ x_pc[j] = "check"
        /\ x_i[j] > Len(x_emails[j])
        /\ store' = store \o x_pending[j]
        /\ x_pending' = [x_pending EXCEPT ![j] = <<>>]
        /\ x_lock' = IF x_lock = j THEN 0 ELSE x_lock
        /\ x_pc' = [x_pc EXCEPT ![j] = "done"]
    /\ UNCHANGED <<x_emails, x_i, x_log>>
    /\ UNCHANGED <<pending, d_emails, d_i, new_count, skipped_count, d_pc, d_before, d_log>>
    /\ UNCHANGED <<cfgVars, scoreVars, classVars, notifyVars, pipeVars>>
    /\ UNCHANGED <<previewVars, raceVars>>

\* an exception leaves insert_emails, or its process dies: the connection is
\* dropped without a commit, its rows are rolled back and its lock released
ConcInterrupt ==
    /\ \E j \in Runs :
        /\ x_pc[j] \in {"check", "insert"}
        /\ x_pending' = [x_pending EXCEPT ![j] = <<>>]
        /\ x_lock' = IF x_lock = j THEN 0 ELSE x_lock
        /\ x_pc' = [x_pc EXCEPT ![j] = "raised"]
    /\ UNCHANGED <<store, x_emails, x_i, x_log>>
    /\ UNCHANGED <<pending, d_emails, d_i, new_count, skipped_count, d_pc, d_before, d_log>>
    /\ UNCHANGED <<cfgVars, scoreVars, classVars, notifyVars, pipeVars>>
    /\ UNCHANGED <<previewVars, raceVars>>

NextConc == ConcCheck \/ ConcInsert \/ ConcCommit \/ ConcInterrupt

SpecConc == InitConc /\ [][NextConc]_vars

BatchIds(emails) == {emails[k].id : k \in DOMAIN emails}

\* the ids that both batches carry
SharedIds == BatchIds(x_emails[1]) \cap BatchIds(x_emails[2])

\* C24: whatever the order of the existence checks, inserts and commits of
\* the two runs, the store never holds two records of one id, and once both
\* runs have returned it holds exactly one record of every id that both
\* batches carry.
C24_ConcurrentDedup ==
    /\ \A id \in Ids(store) : Cardinality(RowsWithId(store, id)) = 1
    /\ (\A j \in Runs : x_pc[j] = "done") =>
           \A id \in SharedIds : Cardinality(RowsWithId(store, id)) = 1

\* both runs found m1 absent before either had committed it; run 1 inserted
\* it, the INSERT of run 2 failed, and both runs have returned
C24_Witness ==
    /\ \A j \in Runs : x_pc[j] = "done"
    /\ \A j \in Runs : Len(x_emails[j]) = 1 /\ x_emails[j][1].id = "m1"
    /\ x_log[1] = <<"inserted">>
    /\ x_log[2] = <<"error">>
    /\ Cardinality(RowsWithId(store, "m1")) = 1

====
